---- MODULE Spec2Model ----
(***************************************************************************)
(* Early-error checks of crates/oxc_linter/src/rules/early_error/          *)
(* javascript.rs.  The rule is a pure function of the visited node: the    *)
(* state is the node handed to EarlyErrorJavaScript::run, the diagnostics  *)
(* pushed to the LintContext while the node is visited, and the position   *)
(* of the visit.  Init draws the node, the Run* actions are the arms of    *)
(* the match in run.                                                       *)
(***************************************************************************)
EXTENDS Integers, Sequences, FiniteSets, TLC

VARIABLES node, diags, pc

vars == <<node, diags, pc>>

\* ------------------------------------------------------------------ bounds
\* Longest ancestor chain below the Program root.
MaxDepth == 3
\* Longest ancestor chain of a private identifier between its parent and the
\* Program root.
MaxClassDepth == 3
\* Most elements in one class body.
MaxBody == 1
\* Longest string literal body (characters between the quotes).
MaxStrLen == 5
\* Longest raw text of a numeric literal.
MaxNumLen == 4

\* ----------------------------------------------------------------- helpers
SeqsUpTo(S, n) == UNION {[1..k -> S] : k \in 0..n}

Span(s, e) == [start |-> s, end |-> e]

\* An ancestor: its AstKind, the label of a LabeledStatement, the body of a
\* Class (the property keys of its elements).
Anc(k, l, b) == [kind |-> k, label |-> l, body |-> b]

ProgramNode == Anc("Program", "", <<>>)

Labels == {"a", "b"}

\* ------------------------------------------------------------- diagnostics
InvalidBreak(span) == [kind |-> "InvalidBreak", name |-> "", span |-> span]

InvalidContinue(span) == [kind |-> "InvalidContinue", name |-> "", span |-> span]

InvalidLabelTarget(span) == [kind |-> "InvalidLabelTarget", name |-> "", span |-> span]

InvalidLabelJumpTarget(span) == [kind |-> "InvalidLabelJumpTarget", name |-> "", span |-> span]

\* ------------------------------------------------------ check_break_statement
IterationKinds == {"WhileStatement", "ForStatement"}

is_iteration_statement(kind) == kind.kind \in IterationKinds

\* stmt.label.as_ref().map_or_else(...) in the Program arm
ProgramArm(stmt) ==
    IF stmt.label = <<>>
    THEN InvalidBreak(stmt.span)
    ELSE InvalidLabelTarget(stmt.label[1].span)

\* stmt.label.as_ref().map_or_else(...) in the Function | StaticBlock arm
BoundaryArm(stmt) ==
    IF stmt.label = <<>>
    THEN InvalidContinue(stmt.span)
    ELSE InvalidLabelJumpTarget(stmt.label[1].span)

LabelMatchesAny(stmt, labeled_statement) == stmt.label # <<>>

\* if let Some(label) = &stmt.label && label.name == labeled_statement.label.name
LabelMatches(stmt, labeled_statement) ==
    /\ stmt.label # <<>>
    /\ stmt.label[1].name = labeled_statement.label

UnlabeledTargetIterationOnly(stmt, kind) ==
    /\ is_iteration_statement(kind)
    /\ stmt.label = <<>>

\* kind if (kind.is_iteration_statement() || matches!(kind, AstKind::SwitchStatement(_)))
\*     && stmt.label.is_none()
UnlabeledTarget(stmt, kind) ==
    /\ is_iteration_statement(kind) \/ kind.kind = "SwitchStatement"
    /\ stmt.label = <<>>

\* The loop over ctx.ancestors(node).skip(1), from the i-th ancestor on.
RECURSIVE BreakWalk(_, _, _)
BreakWalk(stmt, anc, i) ==
    IF i > Len(anc) THEN <<>>
    ELSE IF anc[i].kind = "Program" THEN <<ProgramArm(stmt)>>
    ELSE IF anc[i].kind \in {"Function", "StaticBlock"} THEN <<BoundaryArm(stmt)>>
    ELSE IF anc[i].kind = "LabeledStatement"
         THEN IF LabelMatches(stmt, anc[i]) THEN <<>> ELSE BreakWalk(stmt, anc, i + 1)
    ELSE IF UnlabeledTarget(stmt, anc[i]) THEN <<>>
    ELSE BreakWalk(stmt, anc, i + 1)

check_break_statement(stmt) == BreakWalk(stmt, stmt.ancestors, 1)

\* Ancestors a jump statement can have below the root.
JumpAncestors ==
    {Anc(k, "", <<>>) : k \in {"Function", "StaticBlock", "SwitchStatement",
                                "BlockStatement"} \cup IterationKinds}
    \cup {Anc("LabeledStatement", l, <<>>) : l \in Labels}

JumpChains == {Append(c, ProgramNode) : c \in SeqsUpTo(JumpAncestors, MaxDepth)}

JumpLabels == {<<>>} \cup {<<[name |-> l, span |-> Span(6, 7)]>> : l \in Labels}

JumpNodes ==
    [kind : {"BreakStatement", "ContinueStatement"}, span : {Span(0, 8)},
     label : JumpLabels, ancestors : JumpChains]

\* AstKind::BreakStatement(lit) => check_break_statement(lit, node, ctx)
RunBreakStatement ==
    /\ pc = "visit"
    /\ node.kind = "BreakStatement"
    /\ diags' = check_break_statement(node)
    /\ pc' = "done"
    /\ UNCHANGED node

DispatchedKinds ==
    {"PrivateIdentifier", "NumberLiteral", "StringLiteral", "RegExpLiteral",
     "BreakStatement"}

\* _ => {}
RunOther ==
    /\ pc = "visit"
    /\ node.kind \notin DispatchedKinds
    /\ diags' = <<>>
    /\ pc' = "done"
    /\ UNCHANGED node

InitJump ==
    /\ node \in JumpNodes
    /\ diags = <<>>
    /\ pc = "visit"

NextJump == RunBreakStatement \/ RunOther

SpecJump == InitJump /\ [][NextJump]_vars

\* --------------------------------------------------- check_private_identifier
PrivateNotInClass(name, span) == [kind |-> "PrivateNotInClass", name |-> name, span |-> span]

PrivateFieldUndeclared(name, span) ==
    [kind |-> "PrivateFieldUndeclared", name |-> name, span |-> span]

\* ctx.parent_kind(node)
parent_kind(n) == n.ancestors[1].kind

\* The classes pushed by the loop over ctx.ancestors(node).skip(1) from the
\* i-th ancestor on: every Class up to the first ClassHeritage.
RECURSIVE EnclosingClasses(_, _)
EnclosingClasses(anc, i) ==
    IF i > Len(anc) THEN <<>>
    ELSE IF anc[i].kind = "Class" THEN <<anc[i]>> \o EnclosingClasses(anc, i + 1)
    ELSE IF anc[i].kind = "ClassHeritage" THEN <<>>
    ELSE EnclosingClasses(anc, i + 1)

\* if let Some(key) = def.property_key() && let PropertyKey::PrivateIdentifier(prop_ident) = key
DeclaresPrivate(def, name) ==
    /\ def.key # <<>>
    /\ def.key[1].kind = "PrivateIdentifier"
    /\ def.key[1].name = name

FoundInNearestClass(classes, name) ==
    \E e \in 1..Len(classes[1].body) : DeclaresPrivate(classes[1].body[e], name)

\* classes.iter().any(|class| class.body.body.iter().any(|def| ...))
found_private_ident(classes, name) ==
    \E c \in 1..Len(classes) :
        \E e \in 1..Len(classes[c].body) : DeclaresPrivate(classes[c].body[e], name)

check_private_identifier(ident) ==
    IF parent_kind(ident) = "PropertyKey" THEN <<>>
    ELSE LET classes == EnclosingClasses(ident.ancestors, 1) IN
         IF classes = <<>> THEN <<PrivateNotInClass(ident.name, ident.span)>>
         ELSE IF ~found_private_ident(classes, ident.name)
              THEN <<PrivateFieldUndeclared(ident.name, ident.span)>>
              ELSE <<>>

\* Names of the private identifiers that are referenced.
PrivateNames == {"a", "b"}

\* def.property_key() of a class element: none for a static block, else a
\* PropertyKey of some kind; `a` and `#a` are the keys that are declared.
ClassElements ==
    {[key |-> <<>>],
     [key |-> <<[kind |-> "Identifier", name |-> "a"]>>],
     [key |-> <<[kind |-> "PrivateIdentifier", name |-> "a"]>>]}

ClassNodes == {Anc("Class", "", b) : b \in SeqsUpTo(ClassElements, MaxBody)}

PrivateAncestors == ClassNodes \cup {Anc("ClassHeritage", "", <<>>), Anc("Function", "", <<>>)}

\* The parent of a ClassHeritage is its Class.
HeritageInClass(c) ==
    \A i \in 1..Len(c) : c[i].kind = "ClassHeritage" =>
        i < Len(c) /\ c[i + 1].kind = "Class"

PrivateChains ==
    {<<p>> \o c \o <<ProgramNode>> :
        p \in {Anc("PropertyKey", "", <<>>), Anc("PrivateFieldExpression", "", <<>>)},
        c \in {d \in SeqsUpTo(PrivateAncestors, MaxClassDepth) : HeritageInClass(d)}}

PrivateNodes ==
    [kind : {"PrivateIdentifier"}, name : PrivateNames, span : {Span(0, 2)},
     ancestors : PrivateChains]

\* AstKind::PrivateIdentifier(ident) => check_private_identifier(ident, node, ctx)
RunPrivateIdentifier ==
    /\ pc = "visit"
    /\ node.kind = "PrivateIdentifier"
    /\ diags' = check_private_identifier(node)
    /\ pc' = "done"
    /\ UNCHANGED node

InitPrivate ==
    /\ node \in PrivateNodes
    /\ diags = <<>>
    /\ pc = "visit"

NextPrivate == RunPrivateIdentifier

SpecPrivate == InitPrivate /\ [][NextPrivate]_vars

\* ------------------------------------------------------ check_regexp_literal
RegExpFlagUAndV(span) == [kind |-> "RegExpFlagUAndV", name |-> "", span |-> span]

\* The flags of RegExpFlags; a flag value is the set of the flags that are on.
RegExpFlags == {"G", "I", "M", "S", "U", "Y", "D", "V"}

intersects(flags, other) == flags \cap other # {}

\* flags.contains(other): every flag of other is on
contains(flags, other) == other \subseteq flags

check_regexp_literal(lit) ==
    IF contains(lit.flags, {"U", "V"}) THEN <<RegExpFlagUAndV(lit.span)>> ELSE <<>>

RegExpNodes == [kind : {"RegExpLiteral"}, span : {Span(0, 5)}, flags : SUBSET RegExpFlags]

\* AstKind::RegExpLiteral(lit) => check_regexp_literal(lit, ctx)
RunRegExpLiteral ==
    /\ pc = "visit"
    /\ node.kind = "RegExpLiteral"
    /\ diags' = check_regexp_literal(node)
    /\ pc' = "done"
    /\ UNCHANGED node

InitRegExp ==
    /\ node \in RegExpNodes
    /\ diags = <<>>
    /\ pc = "visit"

NextRegExp == RunRegExpLiteral

SpecRegExp == InitRegExp /\ [][NextRegExp]_vars

\* ------------------------------------------------------------- source text
\* Characters are their ASCII codes.
Ascii(c) ==
    CASE c = "\"" -> 34
      [] c = "0" -> 48
      [] c = "1" -> 49
      [] c = "2" -> 50
      [] c = "3" -> 51
      [] c = "7" -> 55
      [] c = "8" -> 56
      [] c = "9" -> 57
      [] c = "\\" -> 92
      [] c = "a" -> 97
      [] c = "b" -> 98
      [] c = "o" -> 111
      [] c = "x" -> 120

\* ------------------------------------------------------ check_number_literal
LegacyOctal(span) == [kind |-> "LegacyOctal", name |-> "", span |-> span]

LeadingZeroDecimal(span) == [kind |-> "LeadingZeroDecimal", name |-> "", span |-> span]

is_ascii_digit(c) == c \in Ascii("0")..Ascii("9")

FirstIsZero(s) == Len(s) >= 2 /\ s[1] = Ascii("0")

\* fn leading_zero(s: &str) -> bool
leading_zero(s) ==
    /\ Len(s) >= 2
    /\ s[1] = Ascii("0") /\ is_ascii_digit(s[2])

check_number_literal(lit) ==
    IF lit.strict
    THEN IF lit.base = "Octal" /\ leading_zero(lit.raw) THEN <<LegacyOctal(lit.span)>>
         ELSE IF lit.base = "Decimal" /\ leading_zero(lit.raw)
              THEN <<LeadingZeroDecimal(lit.span)>>
              ELSE <<>>
    ELSE <<>>

NumberChars == {Ascii("0"), Ascii("1"), Ascii("2"), Ascii("8"), Ascii("b"), Ascii("o"), Ascii("x")}

AllIn(s, from, S) == \A i \in from..Len(s) : s[i] \in S

\* The numeric literals of the grammar over NumberChars: digits only (decimal,
\* or legacy with a leading zero), or 0b, 0o, 0x followed by digits of the base.
IsNumericLiteral(s) ==
    \/ Len(s) >= 1 /\ AllIn(s, 1, Ascii("0")..Ascii("9"))
    \/ /\ Len(s) >= 3
       /\ s[1] = Ascii("0")
       /\ \/ s[2] = Ascii("b") /\ AllIn(s, 3, {Ascii("0"), Ascii("1")})
          \/ s[2] = Ascii("o") /\ AllIn(s, 3, Ascii("0")..Ascii("7"))
          \/ s[2] = Ascii("x") /\ AllIn(s, 3, (Ascii("0")..Ascii("9")) \cup {Ascii("b")})

\* lit.base as the lexer sets it: the prefix decides; a bare leading zero is
\* octal unless an 8 or a 9 follows, which makes the literal decimal.
NumberBaseOf(s) ==
    IF Len(s) >= 2 /\ s[1] = Ascii("0") /\ s[2] = Ascii("b") THEN "Binary"
    ELSE IF Len(s) >= 2 /\ s[1] = Ascii("0") /\ s[2] = Ascii("o") THEN "Octal"
    ELSE IF Len(s) >= 2 /\ s[1] = Ascii("0") /\ s[2] = Ascii("x") THEN "Hex"
    ELSE IF Len(s) >= 2 /\ s[1] = Ascii("0") /\ AllIn(s, 2, Ascii("0")..Ascii("7")) THEN "Octal"
    ELSE "Decimal"

NumberNodes ==
    {[kind |-> "NumberLiteral", span |-> Span(0, Len(r)), raw |-> r,
      base |-> NumberBaseOf(r), strict |-> st] :
        r \in {s \in SeqsUpTo(NumberChars, MaxNumLen) : IsNumericLiteral(s)},
        st \in BOOLEAN}

\* AstKind::NumberLiteral(lit) => check_number_literal(lit, node, ctx)
RunNumberLiteral ==
    /\ pc = "visit"
    /\ node.kind = "NumberLiteral"
    /\ diags' = check_number_literal(node)
    /\ pc' = "done"
    /\ UNCHANGED node

InitNumber ==
    /\ node \in NumberNodes
    /\ diags = <<>>
    /\ pc = "visit"

NextNumber == RunNumberLiteral

SpecNumber == InitNumber /\ [][NextNumber]_vars

\* ------------------------------------------------------ check_string_literal
NonOctalDecimalEscapeSequence(span) ==
    [kind |-> "NonOctalDecimalEscapeSequence", name |-> "", span |-> span]

\* chars.peek().is_some_and(|c| ('1'..='9').contains(c)) after `\0`, the
\* backslash being the i-th character
ZeroThenDigit(raw, i) == i + 2 <= Len(raw) /\ raw[i + 2] \in Ascii("1")..Ascii("9")

OneToNine(c) == c \in Ascii("1")..Ascii("9")

\* Some('1'..='7')
OneToSeven(c) == c \in Ascii("1")..Ascii("7")

\* Some('8'..='9')
EightOrNine(c) == c \in Ascii("8")..Ascii("9")

\* while let Some(c) = chars.next() { ... }, chars standing before the i-th
\* character of raw.
RECURSIVE ScanEscapes(_, _, _)
ScanEscapes(raw, i, span) ==
    IF i > Len(raw) THEN <<>>
    ELSE IF raw[i] # Ascii("\\") THEN ScanEscapes(raw, i + 1, span)
    ELSE IF i + 1 > Len(raw) THEN <<>>
    ELSE IF raw[i + 1] = Ascii("0")
         THEN IF ZeroThenDigit(raw, i) THEN <<LegacyOctal(span)>>
              ELSE ScanEscapes(raw, i + 2, span)
    ELSE IF OneToSeven(raw[i + 1]) THEN <<LegacyOctal(span)>>
    ELSE IF EightOrNine(raw[i + 1]) THEN <<NonOctalDecimalEscapeSequence(span)>>
    ELSE ScanEscapes(raw, i + 2, span)

\* str::len of a decoded value: one byte below U+0080, two up to U+00FF.
Utf8Len(v) == Len(v) + Cardinality({i \in 1..Len(v) : v[i] >= 128})

check_string_literal(lit) ==
    IF lit.strict /\ Len(lit.raw) # Utf8Len(lit.value)
    THEN ScanEscapes(lit.raw, 1, lit.span)
    ELSE <<>>

StringChars == {Ascii("\\"), Ascii("0"), Ascii("1"), Ascii("2"), Ascii("7"), Ascii("8"), Ascii("a")}

\* Every backslash of the body escapes a character of the body, so that the
\* closing quote ends the literal.
RECURSIVE EscapesClosed(_, _)
EscapesClosed(body, i) ==
    IF i > Len(body) THEN TRUE
    ELSE IF body[i] = Ascii("\\") THEN i + 1 <= Len(body) /\ EscapesClosed(body, i + 2)
    ELSE EscapesClosed(body, i + 1)

\* Digits of the legacy octal escape whose first digit is body[i]: up to
\* three when it starts with 0..3, up to two otherwise.
OctalRun(body, i) ==
    IF i + 1 <= Len(body) /\ body[i + 1] \in Ascii("0")..Ascii("7")
    THEN IF /\ body[i] \in Ascii("0")..Ascii("3")
            /\ i + 2 <= Len(body)
            /\ body[i + 2] \in Ascii("0")..Ascii("7")
         THEN 3 ELSE 2
    ELSE 1

RECURSIVE OctalValue(_, _, _)
OctalValue(body, i, n) ==
    IF n = 0 THEN 0 ELSE 8 * OctalValue(body, i, n - 1) + (body[i + n - 1] - Ascii("0"))

\* lit.value: the body with its escapes decoded, as code points.
RECURSIVE StringValue(_, _)
StringValue(body, i) ==
    IF i > Len(body) THEN <<>>
    ELSE IF body[i] # Ascii("\\") THEN <<body[i]>> \o StringValue(body, i + 1)
    ELSE IF body[i + 1] \in Ascii("0")..Ascii("7")
         THEN <<OctalValue(body, i + 1, OctalRun(body, i + 1))>>
              \o StringValue(body, i + 1 + OctalRun(body, i + 1))
    ELSE <<body[i + 1]>> \o StringValue(body, i + 2)

StringNodes ==
    {[kind |-> "StringLiteral", span |-> Span(0, Len(b) + 2),
      raw |-> <<Ascii("\"")>> \o b \o <<Ascii("\"")>>, value |-> StringValue(b, 1),
      strict |-> st] :
        b \in {c \in SeqsUpTo(StringChars, MaxStrLen) : EscapesClosed(c, 1)},
        st \in BOOLEAN}

\* AstKind::StringLiteral(lit) => check_string_literal(lit, node, ctx)
RunStringLiteral ==
    /\ pc = "visit"
    /\ node.kind = "StringLiteral"
    /\ diags' = check_string_literal(node)
    /\ pc' = "done"
    /\ UNCHANGED node

InitString ==
    /\ node \in StringNodes
    /\ diags = <<>>
    /\ pc = "visit"

NextString == RunStringLiteral

SpecString == InitString /\ [][NextString]_vars

\* ------------------------------------------------------------------- run
\* fn run: one visit of one node, whatever its kind.
Init == InitPrivate \/ InitNumber \/ InitString \/ InitRegExp \/ InitJump

Next ==
    \/ RunPrivateIdentifier
    \/ RunNumberLiteral
    \/ RunStringLiteral
    \/ RunRegExpLiteral
    \/ RunBreakStatement
    \/ RunOther

Spec == Init /\ [][Next]_vars

\* ------------------------------------------------- jump statement properties
Visited(k) == pc = "done" /\ node.kind = k

IsBoundary(a) == a.kind \in {"Function", "StaticBlock"}

\* Index of the nearest ancestor of n that satisfies P (the root if P(root)).
NearestIn(n, S) == CHOOSE i \in S : \A j \in S : i <= j

LabeledDeciders(n) ==
    {i \in 1..Len(n.ancestors) :
        \/ n.ancestors[i].kind = "Program"
        \/ IsBoundary(n.ancestors[i])
        \/ /\ n.ancestors[i].kind = "LabeledStatement"
           /\ n.ancestors[i].label = n.label[1].name}

LabeledDecider(n) == n.ancestors[NearestIn(n, LabeledDeciders(n))]

\* C6: a labeled break is decided by the nearest ancestor that is a
\* LabeledStatement of the same name, a Function, a StaticBlock or the
\* Program: no diagnostic, exactly InvalidLabelJumpTarget on the label's span,
\* exactly InvalidLabelTarget on the label's span, in that order.  Loops,
\* switches and LabeledStatements of another name never decide.
C6_LabeledBreakDecided ==
    (Visited("BreakStatement") /\ node.label # <<>>) =>
        LET d == LabeledDecider(node) IN
        /\ d.kind = "LabeledStatement" => diags = <<>>
        /\ IsBoundary(d) => diags = <<InvalidLabelJumpTarget(node.label[1].span)>>
        /\ d.kind = "Program" => diags = <<InvalidLabelTarget(node.label[1].span)>>

\* `b: function () { for (;;) break b; }` seen from the break: a loop, then
\* the function, then the label outside of it.
C6_Witness ==
    /\ Visited("BreakStatement")
    /\ node.label # <<>>
    /\ Len(node.ancestors) = 4
    /\ is_iteration_statement(node.ancestors[1])
    /\ node.ancestors[2].kind = "Function"
    /\ node.ancestors[3].kind = "LabeledStatement"
    /\ node.ancestors[3].label = node.label[1].name
    /\ diags = <<InvalidLabelJumpTarget(node.label[1].span)>>

UnlabeledDeciders(n) ==
    {i \in 1..Len(n.ancestors) :
        \/ n.ancestors[i].kind = "Program"
        \/ IsBoundary(n.ancestors[i])
        \/ is_iteration_statement(n.ancestors[i])
        \/ n.ancestors[i].kind = "SwitchStatement"}

UnlabeledDecider(n) == n.ancestors[NearestIn(n, UnlabeledDeciders(n))]

\* C7: an unlabeled break gets no diagnostic iff a loop or a switch is reached
\* before any Function, StaticBlock or Program; when the Program is reached
\* first the diagnostic is InvalidBreak on the statement's span.  Enclosing
\* LabeledStatements do not count.
C7_UnlabeledBreak ==
    (Visited("BreakStatement") /\ node.label = <<>>) =>
        LET d == UnlabeledDecider(node) IN
        /\ diags = <<>> <=> (is_iteration_statement(d) \/ d.kind = "SwitchStatement")
        /\ d.kind = "Program" => diags = <<InvalidBreak(node.span)>>

\* `function f() { l: switch (x) { default: break; } }` seen from the break.
C7_Witness ==
    /\ Visited("BreakStatement")
    /\ node.label = <<>>
    /\ Len(node.ancestors) = 4
    /\ node.ancestors[1].kind = "SwitchStatement"
    /\ node.ancestors[2].kind = "LabeledStatement"
    /\ node.ancestors[3].kind = "Function"
    /\ diags = <<>>

\* The label of a labeled continue resolves, without crossing a boundary, to
\* a LabeledStatement whose body is a switch statement.
ContinueTargetsSwitch(n) ==
    /\ n.label # <<>>
    /\ LabeledDecider(n).kind = "LabeledStatement"
    /\ NearestIn(n, LabeledDeciders(n)) > 1
    /\ n.ancestors[NearestIn(n, LabeledDeciders(n)) - 1].kind = "SwitchStatement"

\* C5: visiting `continue myLabel;` where myLabel labels a switch statement
\* emits a diagnostic about the invalid continue target.
C5_ContinueSwitchReported ==
    (Visited("ContinueStatement") /\ ContinueTargetsSwitch(node)) => diags # <<>>

\* C10: every diagnostic emitted for an unlabeled break is InvalidBreak, at the
\* Program root and at a Function or StaticBlock boundary alike;
\* InvalidContinue is never emitted for a break statement.
C10_BreakNeverContinueDiag ==
    Visited("BreakStatement") =>
        /\ \A i \in 1..Len(diags) : diags[i].kind # "InvalidContinue"
        /\ node.label = <<>> => \A i \in 1..Len(diags) : diags[i].kind = "InvalidBreak"

\* ------------------------------------------------ private identifier properties
Declares(class, name) ==
    \E e \in 1..Len(class.body) :
        class.body[e] = [key |-> <<[kind |-> "PrivateIdentifier", name |-> name]>>]

IsReference(n) == n.ancestors[1].kind # "PropertyKey"

\* Indices of the ClassHeritage ancestors of n.
Heritages(n) == {i \in 1..Len(n.ancestors) : n.ancestors[i].kind = "ClassHeritage"}

\* The reference sits in the `extends` expression of the class at index h + 1,
\* which declares the name, and no other enclosing class declares it.
InOwnHeritage(n, h) ==
    /\ h \in Heritages(n)
    /\ \A j \in Heritages(n) : h <= j
    /\ Declares(n.ancestors[h + 1], n.name)
    /\ \A j \in 1..Len(n.ancestors) :
          (n.ancestors[j].kind = "Class" /\ j # h + 1) => ~Declares(n.ancestors[j], n.name)

\* C1: a reference inside the `extends` expression of a class, to a name only
\* that class declares, is reported as PrivateFieldUndeclared, whatever the
\* heritage expression looks like.
C1_HeritageUndeclared ==
    (Visited("PrivateIdentifier") /\ IsReference(node)) =>
        \A h \in 1..Len(node.ancestors) :
            InOwnHeritage(node, h) =>
                diags = <<PrivateFieldUndeclared(node.name, node.span)>>

\* C2: a reference whose name is declared in the body of a Class ancestor
\* that comes before every ClassHeritage ancestor gets no diagnostic, at any
\* nesting depth, also when nearer classes do not declare it.
C2_DeclaredInEnclosingClass ==
    (Visited("PrivateIdentifier") /\ IsReference(node)) =>
        ((\E i \in 1..Len(node.ancestors) :
            /\ node.ancestors[i].kind = "Class"
            /\ Declares(node.ancestors[i], node.name)
            /\ \A h \in Heritages(node) : i < h)
         => diags = <<>>)

\* `class A { #a; m() { class B { n() { this.#a } } } }` seen from the
\* reference: the nearer class does not declare the name, the outer one does.
C2_Witness ==
    /\ Visited("PrivateIdentifier")
    /\ IsReference(node)
    /\ \E i, j \in 1..Len(node.ancestors) :
          /\ i < j
          /\ node.ancestors[i].kind = "Class"
          /\ ~Declares(node.ancestors[i], node.name)
          /\ node.ancestors[j].kind = "Class"
          /\ Declares(node.ancestors[j], node.name)
          /\ \A h \in Heritages(node) : j < h
    /\ diags = <<>>

\* ------------------------------------------------------- regexp properties
\* C8: a regular expression literal gets exactly one RegExpFlagUAndV
\* diagnostic when both the u and the v flag are set and none when at most one
\* of them is, whatever the other flags.
C8_RegExpUAndV ==
    Visited("RegExpLiteral") =>
        IF "U" \in node.flags /\ "V" \in node.flags
        THEN diags = <<RegExpFlagUAndV(node.span)>>
        ELSE diags = <<>>

\* /x/giuv
C8_Witness ==
    /\ Visited("RegExpLiteral")
    /\ node.flags = {"G", "I", "U", "V"}
    /\ Len(diags) = 1

\* ------------------------------------------------------- number properties
Lit012 == <<Ascii("0"), Ascii("1"), Ascii("2")>>

Lit0o12 == <<Ascii("0"), Ascii("o"), Ascii("1"), Ascii("2")>>

\* Written with a bare leading zero followed by a digit.
BareLeadingZero(s) == Len(s) >= 2 /\ s[1] = Ascii("0") /\ s[2] \in Ascii("0")..Ascii("9")

\* C4 as stated: in strict mode `012`, and every literal with a bare leading
\* zero followed by a digit, is reported as LeadingZeroDecimal; `0o12` in
\* strict mode and `012` in non-strict code are not reported.
C4_LeadingZeroIsDecimal ==
    Visited("NumberLiteral") =>
        /\ (node.strict /\ BareLeadingZero(node.raw)) =>
               diags = <<LeadingZeroDecimal(node.span)>>
        /\ (node.strict /\ node.raw = Lit0o12) => diags = <<>>
        /\ (~node.strict /\ node.raw = Lit012) => diags = <<>>

\* C4 amended: in strict mode a literal with a bare leading zero followed by
\* a digit gets exactly one diagnostic, LegacyOctal when all its digits are
\* octal (as in `012`) and LeadingZeroDecimal when it has an 8 or a 9 (as in
\* `08`); a strict literal without a bare leading zero (as `0o12`) and every
\* literal in non-strict code get none.
C4_LeadingZeroByBase ==
    Visited("NumberLiteral") =>
        IF node.strict /\ BareLeadingZero(node.raw)
        THEN IF \E i \in 1..Len(node.raw) : node.raw[i] \in {Ascii("8"), Ascii("9")}
             THEN diags = <<LeadingZeroDecimal(node.span)>>
             ELSE diags = <<LegacyOctal(node.span)>>
        ELSE diags = <<>>

\* `012` in strict mode
C4_Witness ==
    /\ Visited("NumberLiteral")
    /\ node.strict
    /\ node.raw = Lit012
    /\ diags = <<LegacyOctal(node.span)>>

\* ------------------------------------------------------- string properties
\* The backslash at i starts an escape: an even number of backslashes come
\* right before it.
EscapeStart(raw, i) ==
    /\ raw[i] = Ascii("\\")
    /\ Cardinality({k \in 1..(i - 1) : \A j \in k..(i - 1) : raw[j] = Ascii("\\")}) % 2 = 0

At(raw, i) == IF i <= Len(raw) THEN raw[i] ELSE 0

\* LegacyOctalEscapeSequence of the grammar: \1..\7, or \0 followed by a digit.
LegacyOctalEscape(raw, i) ==
    /\ EscapeStart(raw, i)
    /\ \/ At(raw, i + 1) \in Ascii("1")..Ascii("7")
       \/ At(raw, i + 1) = Ascii("0") /\ At(raw, i + 2) \in Ascii("0")..Ascii("9")

\* NonOctalDecimalEscapeSequence of the grammar: \8 or \9.
NonOctalEscape(raw, i) ==
    /\ EscapeStart(raw, i)
    /\ At(raw, i + 1) \in Ascii("8")..Ascii("9")

Body0012 == <<Ascii("\\"), Ascii("0"), Ascii("0"), Ascii("1"), Ascii("2")>>

\* C3: a strict-mode string literal that contains a legacy octal escape, the
\* body `\0012` included, is reported as LegacyOctal, and no string literal
\* is reported in non-strict code.  Stated for the literals in which no \8 or
\* \9 escape comes before the octal escape.
C3_LegacyOctalReported ==
    Visited("StringLiteral") =>
        /\ (/\ node.strict
            /\ \E i \in 1..Len(node.raw) :
                  /\ LegacyOctalEscape(node.raw, i)
                  /\ \A j \in 1..i : ~NonOctalEscape(node.raw, j))
           => diags = <<LegacyOctal(node.span)>>
        /\ ~node.strict => diags = <<>>

\* The escapes C9 lists: \8, \9, \1..\7, and \0 followed by 1..9.
Offending(raw, i) ==
    /\ EscapeStart(raw, i)
    /\ \/ At(raw, i + 1) \in Ascii("1")..Ascii("9")
       \/ At(raw, i + 1) = Ascii("0") /\ At(raw, i + 2) \in Ascii("1")..Ascii("9")

FirstOffending(raw) ==
    CHOOSE i \in 1..Len(raw) : Offending(raw, i) /\ \A j \in 1..(i - 1) : ~Offending(raw, j)

\* C9: a strict-mode string literal gets at most one diagnostic, fixed by the
\* first offending escape from the left: NonOctalDecimalEscapeSequence for \8
\* or \9, LegacyOctal for \1..\7 or \0 followed by 1..9.  Later escapes add
\* nothing and a digit after an escaped backslash is no escape.
C9_FirstOffendingEscape ==
    (Visited("StringLiteral") /\ node.strict) =>
        IF \E i \in 1..Len(node.raw) : Offending(node.raw, i)
        THEN IF At(node.raw, FirstOffending(node.raw) + 1) \in Ascii("8")..Ascii("9")
             THEN diags = <<NonOctalDecimalEscapeSequence(node.span)>>
             ELSE diags = <<LegacyOctal(node.span)>>
        ELSE diags = <<>>

\* "\\1\8": the 1 follows an escaped backslash, the first escape that
\* offends is \8.
C9_Witness ==
    /\ Visited("StringLiteral")
    /\ node.strict
    /\ node.raw = <<Ascii("\""), Ascii("\\"), Ascii("\\"), Ascii("1"), Ascii("\\"), Ascii("8"),
                    Ascii("\"")>>
    /\ diags = <<NonOctalDecimalEscapeSequence(node.span)>>

====
